---- MODULE Spec2Model ----
(***************************************************************************)
(* lithium-apps/extended-env: the ScalewaySecrets module                   *)
(* (src/src/modules/scaleway_secrets.ts) and its BaseModule                *)
(* (src/src/modules/base_module.ts).                                       *)
(*                                                                         *)
(* A text is a sequence of symbols.  A symbol is one character ("{", a     *)
(* quote, a backslash, a space, a digit ...) or one word of letters        *)
(* ("username", "true"), which no operation of the module ever splits:     *)
(* trim, replaceAll, startsWith, endsWith and slice(1, -1) only look at    *)
(* spaces, backslashes and quotes.                                         *)
(*                                                                         *)
(* A JavaScript value is a record tagged by t: undefined, null, boolean,   *)
(* number, string (v a text), array (v a sequence of values) or object     *)
(* (v a sequence of <<key text, value>> in insertion order).               *)
(*                                                                         *)
(* Spec: one ScalewaySecrets instance over a process.env that may already  *)
(* hold variables; the caller builds one handler pair with a secret        *)
(* method, may change the mapping object it passed, and invokes the        *)
(* required or the optional handler.  MaxCalls and MaxMutations bound the  *)
(* invocations and the changes.                                            *)
(* SpecRoundTrip: parseJson, JSON.stringify and parseJson again, applied   *)
(* to a set of raw payloads.                                               *)
(***************************************************************************)
EXTENDS Integers, Sequences, FiniteSets

VARIABLES
    env,        \* process.env, the Variable Store
    secrets,    \* ScalewaySecrets.secrets: secret name -> parsed value
    heap,       \* the mapping objects
    held,       \* the references the caller holds
    hdl,        \* the handler pair built: its SecretMapping (type "none": not built)
    given,      \* the argument the secret method was called with
    built,      \* the content of hdl's envMapping when the pair was built
    assigned,   \* the variables present at start or written since by set
    last,       \* the last operation and what it did
    calls,
    mutations,
    rt          \* a decode / re-serialize / decode round trip

vars == <<env, secrets, heap, held, hdl, given, built, assigned, last, calls, mutations, rt>>

\* ------------------------------------------------------------------ symbols

LBRACE == "{"
RBRACE == "}"
LBRACK == "["
RBRACK == "]"
COLON == ":"
COMMA == ","
DQ == "\""
SQ == "'"
BS == "\\"
SP == " "

Digits == <<"0", "1", "2", "3", "4", "5", "6", "7", "8", "9">>

IsDigit(c) == \E d \in 1..10 : Digits[d] = c

DigitVal(c) == (CHOOSE d \in 1..10 : Digits[d] = c) - 1

\* ------------------------------------------------------------------- values

Undefined == [t |-> "undefined"]
Null == [t |-> "null"]
Bool(b) == [t |-> "boolean", v |-> b]
Num(n) == [t |-> "number", v |-> n]
Str(s) == [t |-> "string", v |-> s]
Arr(xs) == [t |-> "array", v |-> xs]
Obj(ps) == [t |-> "object", v |-> ps]

\* JavaScript's typeof
TypeOf(x) ==
    CASE x.t = "undefined" -> "undefined"
      [] x.t = "boolean" -> "boolean"
      [] x.t = "number" -> "number"
      [] x.t = "string" -> "string"
      [] OTHER -> "object"

\* !x for the values a raw payload can be: undefined or a string
Falsy(x) == x.t = "undefined" \/ (x.t = "string" /\ x.v = <<>>)

\* -------------------------------------------------------------- JSON.parse

Fail == [ok |-> FALSE, v |-> Undefined, i |-> 0]
Ok(val, next) == [ok |-> TRUE, v |-> val, i |-> next]

RECURSIVE SkipWs(_, _)
SkipWs(s, i) ==
    IF i <= Len(s) /\ s[i] = SP THEN SkipWs(s, i + 1) ELSE i

\* the characters of a string literal from position i, up to its closing quote
RECURSIVE ParseChars(_, _, _)
ParseChars(s, i, acc) ==
    IF i > Len(s) THEN Fail
    ELSE IF s[i] = DQ THEN Ok(Str(acc), i + 1)
    ELSE IF s[i] = BS
         THEN IF i + 1 <= Len(s) /\ s[i + 1] \in {DQ, BS}
              THEN ParseChars(s, i + 2, Append(acc, s[i + 1]))
              ELSE Fail
    ELSE ParseChars(s, i + 1, Append(acc, s[i]))

RECURSIVE ParseDigits(_, _, _)
ParseDigits(s, i, acc) ==
    IF i <= Len(s) /\ IsDigit(s[i])
    THEN ParseDigits(s, i + 1, 10 * acc + DigitVal(s[i]))
    ELSE Ok(Num(acc), i)

\* a number: no sign, fraction or exponent; no leading zero
ParseNumber(s, i) ==
    IF s[i] = "0"
    THEN IF i + 1 <= Len(s) /\ IsDigit(s[i + 1]) THEN Fail ELSE Ok(Num(0), i + 1)
    ELSE ParseDigits(s, i, 0)

\* obj[key] = val on a member list: a repeated key keeps its first place
PutMember(ps, key, val) ==
    IF \E k \in 1..Len(ps) : ps[k][1] = key
    THEN [k \in 1..Len(ps) |-> IF ps[k][1] = key THEN <<key, val>> ELSE ps[k]]
    ELSE Append(ps, <<key, val>>)

RECURSIVE ParseValue(_, _)
RECURSIVE ParseElements(_, _, _)
RECURSIVE ParseMembers(_, _, _)

ParseElements(s, i, acc) ==
    LET r == ParseValue(s, i)
    IN  IF ~r.ok THEN Fail
        ELSE LET k == SkipWs(s, r.i)
             IN  IF k > Len(s) THEN Fail
                 ELSE IF s[k] = COMMA THEN ParseElements(s, k + 1, Append(acc, r.v))
                 ELSE IF s[k] = RBRACK THEN Ok(Arr(Append(acc, r.v)), k + 1)
                 ELSE Fail

ParseMembers(s, i, acc) ==
    LET j == SkipWs(s, i)
    IN  IF j > Len(s) \/ s[j] # DQ THEN Fail
        ELSE LET key == ParseChars(s, j + 1, <<>>)
             IN  IF ~key.ok THEN Fail
                 ELSE LET c == SkipWs(s, key.i)
                      IN  IF c > Len(s) \/ s[c] # COLON THEN Fail
                          ELSE LET r == ParseValue(s, c + 1)
                               IN  IF ~r.ok THEN Fail
                                   ELSE LET k == SkipWs(s, r.i)
                                            ps == PutMember(acc, key.v.v, r.v)
                                        IN  IF k > Len(s) THEN Fail
                                            ELSE IF s[k] = COMMA THEN ParseMembers(s, k + 1, ps)
                                            ELSE IF s[k] = RBRACE THEN Ok(Obj(ps), k + 1)
                                            ELSE Fail

ParseValue(s, i) ==
    LET j == SkipWs(s, i)
    IN  IF j > Len(s) THEN Fail
        ELSE IF s[j] = LBRACE
             THEN LET k == SkipWs(s, j + 1)
                  IN  IF k <= Len(s) /\ s[k] = RBRACE THEN Ok(Obj(<<>>), k + 1)
                      ELSE ParseMembers(s, k, <<>>)
        ELSE IF s[j] = LBRACK
             THEN LET k == SkipWs(s, j + 1)
                  IN  IF k <= Len(s) /\ s[k] = RBRACK THEN Ok(Arr(<<>>), k + 1)
                      ELSE ParseElements(s, k, <<>>)
        ELSE IF s[j] = DQ THEN ParseChars(s, j + 1, <<>>)
        ELSE IF IsDigit(s[j]) THEN ParseNumber(s, j)
        ELSE IF s[j] = "true" THEN Ok(Bool(TRUE), j + 1)
        ELSE IF s[j] = "false" THEN Ok(Bool(FALSE), j + 1)
        ELSE IF s[j] = "null" THEN Ok(Null, j + 1)
        ELSE Fail

\* JSON.parse(text): ok with the value, or not ok (a SyntaxError)
JSONparse(s) ==
    LET r == ParseValue(s, 1)
    IN  IF r.ok /\ SkipWs(s, r.i) > Len(s) THEN r ELSE Fail

\* ---------------------------------------------------------- JSON.stringify

RECURSIVE NumText(_)
NumText(n) ==
    IF n < 10 THEN <<Digits[n + 1]>> ELSE NumText(n \div 10) \o <<Digits[(n % 10) + 1]>>

RECURSIVE Quote(_)
Quote(s) ==
    IF s = <<>> THEN <<>>
    ELSE (IF Head(s) \in {DQ, BS} THEN <<BS, Head(s)>> ELSE <<Head(s)>>) \o Quote(Tail(s))

RECURSIVE JSONstringify(_)
RECURSIVE JoinValues(_)
RECURSIVE JoinMembers(_)

JoinValues(xs) ==
    IF xs = <<>> THEN <<>>
    ELSE JSONstringify(Head(xs))
         \o (IF Len(xs) > 1 THEN <<COMMA>> \o JoinValues(Tail(xs)) ELSE <<>>)

JoinMembers(ps) ==
    IF ps = <<>> THEN <<>>
    ELSE <<DQ>> \o Quote(Head(ps)[1]) \o <<DQ, COLON>> \o JSONstringify(Head(ps)[2])
         \o (IF Len(ps) > 1 THEN <<COMMA>> \o JoinMembers(Tail(ps)) ELSE <<>>)

JSONstringify(x) ==
    CASE x.t = "null" -> <<"null">>
      [] x.t = "boolean" -> IF x.v THEN <<"true">> ELSE <<"false">>
      [] x.t = "number" -> NumText(x.v)
      [] x.t = "string" -> <<DQ>> \o Quote(x.v) \o <<DQ>>
      [] x.t = "array" -> <<LBRACK>> \o JoinValues(x.v) \o <<RBRACK>>
      [] x.t = "object" -> <<LBRACE>> \o JoinMembers(x.v) \o <<RBRACE>>

\* --------------------------------------------------------- property access

\* the property name a field name denotes: one word
FieldText(f) == <<f>>

\* Object.prototype.hasOwnProperty.call(x, f), x an object or an array
HasOwn(x, f) ==
    IF x.t = "object" THEN \E k \in 1..Len(x.v) : x.v[k][1] = FieldText(f)
    ELSE IF x.t = "array" THEN f = "length" \/ (IsDigit(f) /\ DigitVal(f) < Len(x.v))
    ELSE FALSE

\* x[f], x an object or an array
Get(x, f) ==
    IF ~HasOwn(x, f) THEN Undefined
    ELSE IF x.t = "object"
         THEN x.v[CHOOSE k \in 1..Len(x.v) : x.v[k][1] = FieldText(f)][2]
    ELSE IF f = "length" THEN Num(Len(x.v))
    ELSE x.v[DigitVal(f) + 1]

\* Object.values(x), x an object or an array
ObjectValues(x) ==
    IF x.t = "object" THEN [k \in 1..Len(x.v) |-> x.v[k][2]] ELSE x.v

\* String(x): what an assignment to process.env stores
RECURSIVE StringOf(_)
RECURSIVE JoinStrings(_)

JoinStrings(xs) ==
    IF xs = <<>> THEN <<>>
    ELSE (IF Head(xs).t \in {"null", "undefined"} THEN <<>> ELSE StringOf(Head(xs)))
         \o (IF Len(xs) > 1 THEN <<COMMA>> \o JoinStrings(Tail(xs)) ELSE <<>>)

StringOf(x) ==
    CASE x.t = "string" -> x.v
      [] x.t = "number" -> NumText(x.v)
      [] x.t = "boolean" -> IF x.v THEN <<"true">> ELSE <<"false">>
      [] x.t = "null" -> <<"null">>
      [] x.t = "undefined" -> <<"undefined">>
      [] x.t = "array" -> JoinStrings(x.v)
      [] x.t = "object" -> <<"[object Object]">>

\* --------------------------------------------------------------- BaseModule

\* a presence check that looks in the cache of decoded secrets instead
existsInCache(e, key) == key \in DOMAIN secrets /\ secrets[key].t # "undefined"

\* BaseModule.exists: process.env[key] !== undefined
exists(e, key) == e[key].t # "undefined"

\* a set that keeps a variable already present
setIfAbsent(e, key, value) ==
    IF exists(e, key) THEN e ELSE [e EXCEPT ![key] = Str(StringOf(value))]

\* BaseModule.set: process.env[key] = value
set(e, key, value) == [e EXCEPT ![key] = Str(StringOf(value))]

\* ------------------------------------------------------------------ errors
\* Every failure is a TypeError; kind names the throw site, message lists the
\* parts of its template literal.

NoError == [kind |-> "none", message |-> <<>>]

MissingPayload(name) ==
    [kind |-> "MissingPayload",
     message |-> <<"No JSON provided for secret '", name, "'">>]

InvalidJson(name) ==
    [kind |-> "InvalidJson",
     message |-> <<"Unable to parse JSON secret from '", name, "': ", "SyntaxError">>]

\* a shape failure that does not say which kind
InvalidSecretShapeNoType(type) ==
    [kind |-> "InvalidSecretShape",
     message |-> <<"Invalid secret, missing or wrong-typed fields.">>]

InvalidSecretShape(type) ==
    [kind |-> "InvalidSecretShape",
     message |-> <<"Invalid secret for type '", type, "', missing or wrong-typed fields.">>]

MissingSecretField(key, type, envVar) ==
    [kind |-> "MissingSecretField",
     message |-> <<"Secret key '", key, "' not found for type '", type, "'. ",
                   "Cannot map to environment variable '", envVar, "'.">>]

NullSecretField(key, value, type, envVar) ==
    [kind |-> "NullSecretField",
     message |-> <<"Secret property '", key, "' is ", Head(StringOf(value)),
                   " for type '", type, "'. ",
                   "Cannot map to environment variable '", envVar, "'.">>]

\* --------------------------------------------------------------- parseJson

RECURSIVE TrimStart(_)
TrimStart(s) == IF s # <<>> /\ Head(s) = SP THEN TrimStart(Tail(s)) ELSE s

RECURSIVE TrimEnd(_)
TrimEnd(s) ==
    IF s # <<>> /\ s[Len(s)] = SP THEN TrimEnd(SubSeq(s, 1, Len(s) - 1)) ELSE s

Trim(s) == TrimEnd(TrimStart(s))

RemoveBackslashes(s) == SelectSeq(s, LAMBDA c : c # BS)

StartsWith(s, c) == s # <<>> /\ Head(s) = c
EndsWith(s, c) == s # <<>> /\ s[Len(s)] = c

\* an unwrap that drops the first and last symbol whatever they are
UnwrapAlways(raw) ==
    LET jsonString == RemoveBackslashes(Trim(raw))
    IN  SubSeq(jsonString, 2, Len(jsonString) - 1)

\* the text handed to JSON.parse: trimmed, backslashes removed, one pair of
\* surrounding quotes removed
Unwrap(raw) ==
    LET jsonString == RemoveBackslashes(Trim(raw))
    IN  IF (StartsWith(jsonString, DQ) /\ EndsWith(jsonString, DQ))
           \/ (StartsWith(jsonString, SQ) /\ EndsWith(jsonString, SQ))
        THEN SubSeq(jsonString, 2, Len(jsonString) - 1)
        ELSE jsonString

\* parseJson(name, rawJson): ok with the parsed value, or the error thrown
parseJson(name, rawJson) ==
    IF Falsy(rawJson)
    THEN [ok |-> FALSE, v |-> Undefined, error |-> MissingPayload(name)]
    ELSE LET r == JSONparse(Unwrap(rawJson.v))
         IN  IF r.ok THEN [ok |-> TRUE, v |-> r.v, error |-> NoError]
             ELSE [ok |-> FALSE, v |-> Undefined, error |-> InvalidJson(name)]

\* ------------------------------------------------------------------ verify

IsString(x) == TypeOf(x) = "string"

\* a verify that does not look at dbname
verifyWithoutDbname(secretValue, type) ==
    IF TypeOf(secretValue) # "object" \/ secretValue.t = "null" THEN FALSE
    ELSE CASE type = "basic_credentials" ->
                  IsString(Get(secretValue, "username"))
                  /\ IsString(Get(secretValue, "password"))
           [] type = "database_credentials" ->
                  IsString(Get(secretValue, "engine"))
                  /\ IsString(Get(secretValue, "username"))
                  /\ IsString(Get(secretValue, "password"))
                  /\ IsString(Get(secretValue, "host"))
                  /\ IsString(Get(secretValue, "port"))
           [] type = "key_value" ->
                  \A k \in 1..Len(ObjectValues(secretValue)) :
                      IsString(ObjectValues(secretValue)[k])
           [] type = "ssh_key" -> IsString(Get(secretValue, "ssh_private_key"))
           [] OTHER -> FALSE

verify(secretValue, type) ==
    IF TypeOf(secretValue) # "object" \/ secretValue.t = "null" THEN FALSE
    ELSE CASE type = "basic_credentials" ->
                  IsString(Get(secretValue, "username"))
                  /\ IsString(Get(secretValue, "password"))
           [] type = "database_credentials" ->
                  IsString(Get(secretValue, "engine"))
                  /\ IsString(Get(secretValue, "username"))
                  /\ IsString(Get(secretValue, "password"))
                  /\ IsString(Get(secretValue, "host"))
                  /\ IsString(Get(secretValue, "dbname"))
                  /\ IsString(Get(secretValue, "port"))
           [] type = "key_value" ->
                  \A k \in 1..Len(ObjectValues(secretValue)) :
                      IsString(ObjectValues(secretValue)[k])
           [] type = "ssh_key" -> IsString(Get(secretValue, "ssh_private_key"))
           [] OTHER -> FALSE

\* --------------------------------------------------------------- mapSecret
\* A mapping object is a sequence of <<field, variable name>> in insertion
\* order, the order of Object.entries.  A result is the Variable Store after
\* the call, the error thrown (NoError if none) and the calls of set made.

\* the loop of mapSecret from entry k on
RECURSIVE mapEntries(_, _, _, _, _, _)
mapEntries(e, writes, secretValue, type, entries, k) ==
    IF k > Len(entries) THEN [env |-> e, raised |-> NoError, writes |-> writes]
    ELSE LET key == entries[k][1]
             envVar == entries[k][2]
             value == Get(secretValue, key)
         IN  IF ~HasOwn(secretValue, key)
             THEN [env |-> e, raised |-> MissingSecretField(key, type, envVar),
                   writes |-> writes]
             ELSE IF value.t \in {"undefined", "null"}
             THEN [env |-> e, raised |-> NullSecretField(key, value, type, envVar),
                   writes |-> writes]
             ELSE mapEntries(set(e, envVar, value),
                             Append(writes, <<key, envVar, Str(StringOf(value))>>),
                             secretValue, type, entries, k + 1)

\* a mapSecret that projects first and checks the shape afterwards
mapSecretProjectFirst(e, secretValue, type, entries) ==
    LET r == mapEntries(e, <<>>, secretValue, type, entries, 1)
    IN  IF ~verify(secretValue, type)
        THEN [env |-> r.env, raised |-> InvalidSecretShape(type), writes |-> r.writes]
        ELSE r

\* a mapSecret that undoes its writes when an entry cannot be projected
mapSecretAllOrNothing(e, secretValue, type, entries) ==
    LET r == mapEntries(e, <<>>, secretValue, type, entries, 1)
    IN  IF ~verify(secretValue, type)
        THEN [env |-> e, raised |-> InvalidSecretShape(type), writes |-> <<>>]
        ELSE IF r.raised # NoError
        THEN [env |-> e, raised |-> r.raised, writes |-> <<>>]
        ELSE r

mapSecret(e, secretValue, type, entries) ==
    IF ~verify(secretValue, type)
    THEN [env |-> e, raised |-> InvalidSecretShape(type), writes |-> <<>>]
    ELSE mapEntries(e, <<>>, secretValue, type, entries, 1)

\* ---------------------------------------------------------- secret methods
\* The heap holds the mapping objects; a reference is an index into it.  A
\* mapping factory takes the heap and the reference m of the mapping object it
\* is given, and returns the SecretMapping (type, envMapping as a reference)
\* with the heap after it.

DatabaseDefaults ==
    << <<"engine", "DB_CONNECTION">>, <<"host", "DB_HOST">>, <<"port", "DB_PORT">>,
       <<"username", "DB_USER">>, <<"password", "DB_PASSWORD">>,
       <<"dbname", "DB_DATABASE">> >>

CredentialsDefaults == << <<"username", "USERNAME">>, <<"password", "PASSWORD">> >>

\* { ...target, ...source }
RECURSIVE Spread(_, _)
Spread(target, source) ==
    IF source = <<>> THEN target
    ELSE Spread(PutMember(target, Head(source)[1], Head(source)[2]), Tail(source))

\* { ...mapping, ...defaults }: the defaults win
databaseDefaultsWin(h, m) ==
    [type |-> "database_credentials", envMapping |-> Len(h) + 1,
     heap |-> Append(h, Spread(h[m], DatabaseDefaults))]

database(h, m) ==
    [type |-> "database_credentials", envMapping |-> Len(h) + 1,
     heap |-> Append(h, Spread(DatabaseDefaults, h[m]))]

\* envMapping: mapping, as kv and ssh have it: no defaults
credentialsNoDefaults(h, m) ==
    [type |-> "basic_credentials", envMapping |-> m, heap |-> h]

credentials(h, m) ==
    [type |-> "basic_credentials", envMapping |-> Len(h) + 1,
     heap |-> Append(h, Spread(CredentialsDefaults, h[m]))]

kv(h, m) == [type |-> "key_value", envMapping |-> m, heap |-> h]

ssh(h, m) == [type |-> "ssh_key", envMapping |-> m, heap |-> h]

SecretTypes == {"basic_credentials", "database_credentials", "key_value", "ssh_key"}

mappingFactory(type, h, m) ==
    CASE type = "database_credentials" -> database(h, m)
      [] type = "basic_credentials" -> credentials(h, m)
      [] type = "key_value" -> kv(h, m)
      [] type = "ssh_key" -> ssh(h, m)

\* makeSecretMethod's method: (mapping = {}) => createHandler(mappingFactory(mapping)).
\* arg is undefined or the caller's mapping object; passed is the reference of
\* the object the factory is given.
makeSecretMethod(type, h, arg) ==
    LET h1 == Append(h, IF arg.t = "undefined" THEN <<>> ELSE arg.v)
        made == mappingFactory(type, h1, Len(h1))
    IN  [type |-> made.type, envMapping |-> made.envMapping, heap |-> made.heap,
         passed |-> Len(h1)]

\* ------------------------------------------------------------ createHandler
\* A handler result: the Variable Store and the cache of decoded secrets after
\* the call, the error thrown, the calls of set made.

handler(e, s, type, entries, name, rawJson) ==
    LET parsed == parseJson(name, rawJson)
    IN  IF ~parsed.ok
        THEN [env |-> e, secrets |-> s, raised |-> parsed.error, writes |-> <<>>]
        ELSE LET r == mapSecret(e, parsed.v, type, entries)
             IN  [env |-> r.env, secrets |-> [s EXCEPT ![name] = parsed.v],
                  raised |-> r.raised, writes |-> r.writes]

\* an optional handler without its early return
handlerOptionalNoSkip(e, s, type, entries, name, rawJson) ==
    handler(e, s, type, entries, name, rawJson)

handlerOptional(e, s, type, entries, name, rawJson) ==
    IF Falsy(rawJson)
    THEN [env |-> e, secrets |-> s, raised |-> NoError, writes |-> <<>>]
    ELSE LET parsed == parseJson(name, rawJson)
         IN  IF ~parsed.ok
             THEN [env |-> e, secrets |-> s, raised |-> parsed.error, writes |-> <<>>]
             ELSE LET r == mapSecret(e, parsed.v, type, entries)
                  IN  [env |-> r.env, secrets |-> [s EXCEPT ![name] = parsed.v],
                       raised |-> r.raised, writes |-> r.writes]

\* ------------------------------------------------------------------ inputs

MaxCalls == 1
MaxMutations == 1

SecretNames == {"SECRET_DATABASE", "SCW_SECRET"}

VarNames ==
    {"DB_CONNECTION", "DB_HOST", "DB_PORT", "DB_USER", "DB_PASSWORD", "DB_DATABASE",
     "USERNAME", "PASSWORD", "CUSTOM_HOST", "MY_DB_USER", "DB_TTL", "API_USER",
     "API_PASS", "SERVICE_API_KEY", "SERVICE_MODE", "SSH_KEY_ENV", "MOVED"}

EnvKeys == VarNames \cup SecretNames

\* the mapping objects a caller passes to a secret method
Overrides(type) ==
    CASE type = "database_credentials" ->
             { << <<"host", "CUSTOM_HOST">>, <<"username", "MY_DB_USER">> >>,
               << <<"host", "DB_PORT">> >>,
               << <<"ttl", "DB_TTL">> >> }
      [] type = "basic_credentials" ->
             { << <<"username", "API_USER">>, <<"password", "API_PASS">> >>,
               << <<"username", "PASSWORD">> >> }
      [] type = "key_value" ->
             { << <<"api_key", "SERVICE_API_KEY">>, <<"mode", "SERVICE_MODE">> >>,
               << <<"api_key", "SERVICE_API_KEY">>, <<"token", "SERVICE_API_KEY">> >> }
      [] type = "ssh_key" ->
             { << <<"ssh_private_key", "SSH_KEY_ENV">> >> }

MethodArgs(type) == {Undefined} \cup {Obj(m) : m \in Overrides(type)}

\* what a caller does to a mapping object it still holds
Changes ==
    { <<"set", "host", "MOVED">>, <<"set", "username", "MOVED">>,
      <<"set", "api_key", "MOVED">>, <<"set", "ssh_private_key", "MOVED">>,
      <<"delete", "mode", "">>, <<"delete", "host", "">> }

Q(w) == <<DQ, w, DQ>>
Member(k, text) == Q(k) \o <<COLON>> \o text
Braces(text) == <<LBRACE>> \o text \o <<RBRACE>>

DbFieldsText ==
    Member("engine", Q("pg")) \o <<COMMA>> \o Member("username", Q("bob")) \o <<COMMA>>
    \o Member("password", Q("pw")) \o <<COMMA>> \o Member("host", Q("dbhost")) \o <<COMMA>>
    \o Member("port", <<DQ, "5", "4", "3", "2", DQ>>)

\* text with a backslash before every double quote, the whole in double quotes
RECURSIVE Escaped(_)
Escaped(s) ==
    IF s = <<>> THEN <<>>
    ELSE (IF Head(s) = DQ THEN <<BS, DQ>> ELSE <<Head(s)>>) \o Escaped(Tail(s))

CredsText ==
    <<SP>> \o Braces(Member("username", Q("alice")) \o <<COMMA, SP>>
                     \o Member("password", Q("hunter"))) \o <<SP>>
DbText == Braces(DbFieldsText \o <<COMMA>> \o Member("dbname", Q("app")))
DbEscapedText ==
    <<DQ>> \o Escaped(Braces(DbFieldsText \o <<COMMA>> \o Member("dbname", Q("app"))
                             \o <<COMMA>> \o Member("ttl", <<"3", "0">>))) \o <<DQ>>
DbNoDbnameText == Braces(DbFieldsText)
DbNullTtlText ==
    Braces(DbFieldsText \o <<COMMA>> \o Member("dbname", Q("app")) \o <<COMMA>>
           \o Member("ttl", <<"null">>))
KvText == Braces(Member("api_key", Q("k")) \o <<COMMA>> \o Member("mode", Q("live")))
KvPartialText == Braces(Member("api_key", Q("k")))
KvNumberText == Braces(Member("api_key", <<"1">>))
SshText == <<SQ>> \o Braces(Member("ssh_private_key", Q("KEY"))) \o <<SQ>>

RawPayloads ==
    { Undefined, Str(<<>>),
      Str(CredsText), Str(DbText), Str(DbEscapedText), Str(DbNoDbnameText),
      Str(DbNullTtlText), Str(KvText), Str(KvPartialText), Str(KvNumberText),
      Str(SshText),
      Str(<<LBRACK, DQ, "a", DQ, RBRACK>>), Str(<<LBRACK, RBRACK>>),
      Str(<<"7">>), Str(<<"null">>), Str(<<"true">>),
      Str(<<DQ, "a", DQ>>), Str(<<DQ, DQ, "a", DQ, DQ>>) }

EmptyEnv == [k \in EnvKeys |-> Undefined]

\* process.env when the module is loaded
InitialEnvs ==
    { EmptyEnv,
      [k \in EnvKeys |->
          IF k \in {"DB_HOST", "DB_PORT", "PASSWORD", "SECRET_DATABASE"}
          THEN Str(<<"old">>) ELSE Undefined] }

\* -------------------------------------------------------------------- state

NoRoundTrip == [stage |-> "none", raw |-> Undefined, first |-> Undefined,
                text |-> <<>>, second |-> Undefined, accepted |-> FALSE]

Idle(op) ==
    [op |-> op, name |-> "", rawJson |-> Undefined, raised |-> NoError,
     envBefore |-> env, writes |-> <<>>, entries |-> <<>>]

Init ==
    /\ env \in InitialEnvs
    /\ secrets = [n \in SecretNames |-> Undefined]
    /\ heap = <<>>
    /\ held = {}
    /\ hdl = [type |-> "none", envMapping |-> 0]
    /\ given = Undefined
    /\ built = <<>>
    /\ assigned = {k \in EnvKeys : env[k].t # "undefined"}
    /\ rt = NoRoundTrip
    /\ last = [op |-> "none", name |-> "", rawJson |-> Undefined, raised |-> NoError,
               envBefore |-> env, writes |-> <<>>, entries |-> <<>>]
    /\ calls = 0
    /\ mutations = 0

\* const h = secrets.<method>(arg)
Construct(type, arg) ==
    /\ hdl.type = "none"
    /\ LET made == makeSecretMethod(type, heap, arg)
       IN  /\ heap' = made.heap
           /\ hdl' = [type |-> made.type, envMapping |-> made.envMapping]
           /\ built' = made.heap[made.envMapping]
           /\ given' = arg
           /\ held' = IF arg.t = "undefined" THEN held ELSE held \cup {made.passed}
    /\ last' = Idle("construct")
    /\ UNCHANGED <<env, secrets, assigned, calls, mutations, rt>>

\* the caller changes a mapping object it holds: m[field] = variable, or
\* delete m[field]
Mutate(m, change) ==
    /\ m \in held
    /\ mutations < MaxMutations
    /\ \E k \in 1..Len(heap[m]) : heap[m][k][1] = change[2]
    /\ heap' = [heap EXCEPT ![m] =
                   IF change[1] = "set" THEN PutMember(@, change[2], change[3])
                   ELSE SelectSeq(@, LAMBDA p : p[1] # change[2])]
    /\ mutations' = mutations + 1
    /\ last' = Idle("mutate")
    /\ UNCHANGED <<env, secrets, held, hdl, given, built, assigned, calls, rt>>

Done(op, name, rawJson, r) ==
    /\ env' = r.env
    /\ secrets' = r.secrets
    /\ last' = [op |-> op, name |-> name, rawJson |-> rawJson, raised |-> r.raised,
                envBefore |-> env, writes |-> r.writes,
                entries |-> heap[hdl.envMapping]]
    /\ assigned' = assigned \cup {r.writes[k][2] : k \in 1..Len(r.writes)}
    /\ calls' = calls + 1
    /\ UNCHANGED <<heap, held, hdl, given, built, mutations, rt>>

\* h(name, rawJson)
CallHandler(name, rawJson) ==
    /\ hdl.type # "none"
    /\ calls < MaxCalls
    /\ Done("handler", name, rawJson,
            handler(env, secrets, hdl.type, heap[hdl.envMapping], name, rawJson))

\* h.optional(name, rawJson)
CallOptional(name, rawJson) ==
    /\ hdl.type # "none"
    /\ calls < MaxCalls
    /\ Done("optional", name, rawJson,
            handlerOptional(env, secrets, hdl.type, heap[hdl.envMapping], name, rawJson))

Next ==
    \/ \E type \in SecretTypes : \E arg \in MethodArgs(type) : Construct(type, arg)
    \/ \E m \in held : \E change \in Changes : Mutate(m, change)
    \/ \E name \in SecretNames : \E rawJson \in RawPayloads : CallHandler(name, rawJson)
    \/ \E name \in SecretNames : \E rawJson \in RawPayloads : CallOptional(name, rawJson)

Spec == Init /\ [][Next]_vars

\* --------------------------------------------------------------- round trip
\* parseJson applied to a raw payload, JSON.stringify applied to what it
\* returned, and parseJson applied to that text.

Atoms ==
    { Null, Bool(TRUE), Bool(FALSE), Num(0), Num(7), Num(12),
      Str(<<>>), Str(<<"a">>), Str(<<"7">>), Str(<<"a", SP, "b">>), Str(<<SQ>>) }

NestedValues ==
    {Arr(<<>>), Obj(<<>>)}
    \cup {Arr(<<a>>) : a \in Atoms}
    \cup {Arr(<<Str(<<"a">>), a>>) : a \in Atoms}
    \cup {Obj(<< <<(<<"k">>), a>> >>) : a \in Atoms}
    \cup {Obj(<< <<(<<"k">>), Arr(<<a>>)>>, <<(<<"a", SP, "b">>), Null>> >>) : a \in Atoms}
    \cup {Arr(<<Obj(<< <<(<<"k">>), a>> >>)>>) : a \in Atoms}

\* the ways a payload reaches the decoder: bare, padded, in single quotes, in
\* double quotes, in double quotes with its own quotes escaped
Wrappings(text) ==
    { text,
      <<SP>> \o text \o <<SP, SP>>,
      <<SQ>> \o text \o <<SQ>>,
      <<DQ>> \o text \o <<DQ>>,
      <<DQ>> \o Escaped(text) \o <<DQ>> }

RoundTripPayloads ==
    UNION {Wrappings(JSONstringify(x)) : x \in Atoms \cup NestedValues}
    \cup {<<LBRACE>>, <<DQ>>, <<LBRACK, "1", COMMA, RBRACK>>, <<"0", "1">>}

InitRoundTrip ==
    /\ env = EmptyEnv
    /\ secrets = [n \in SecretNames |-> Undefined]
    /\ heap = <<>>
    /\ held = {}
    /\ hdl = [type |-> "none", envMapping |-> 0]
    /\ given = Undefined
    /\ built = <<>>
    /\ assigned = {}
    /\ last = [op |-> "none", name |-> "", rawJson |-> Undefined, raised |-> NoError,
               envBefore |-> EmptyEnv, writes |-> <<>>, entries |-> <<>>]
    /\ calls = 0
    /\ mutations = 0
    /\ \E text \in RoundTripPayloads :
           rt = [NoRoundTrip EXCEPT !.stage = "raw", !.raw = Str(text)]

\* the rest of the state, which a round trip leaves alone
program == <<env, secrets, heap, held, hdl, given, built, assigned, last, calls, mutations>>

Decode ==
    /\ rt.stage = "raw"
    /\ LET parsed == parseJson("SCW_SECRET", rt.raw)
       IN  rt' = [rt EXCEPT !.stage = IF parsed.ok THEN "decoded" ELSE "rejected",
                            !.first = parsed.v]
    /\ UNCHANGED program

Reserialize ==
    /\ rt.stage = "decoded"
    /\ rt' = [rt EXCEPT !.stage = "serialized", !.text = JSONstringify(rt.first)]
    /\ UNCHANGED program

DecodeAgain ==
    /\ rt.stage = "serialized"
    /\ LET parsed == parseJson("SCW_SECRET", Str(rt.text))
       IN  rt' = [rt EXCEPT !.stage = "redecoded", !.accepted = parsed.ok,
                            !.second = parsed.v]
    /\ UNCHANGED program

NextRoundTrip == Decode \/ Reserialize \/ DecodeAgain

SpecRoundTrip == InitRoundTrip /\ [][NextRoundTrip]_vars

\* ------------------------------------------------------------------ claims
\* The vocabulary of the properties: the shape table of the specification, the
\* last invocation and what its payload decodes to.

RequiredFields(type) ==
    CASE type = "basic_credentials" -> {"username", "password"}
      [] type = "database_credentials" ->
             {"engine", "username", "password", "host", "dbname", "port"}
      [] type = "ssh_key" -> {"ssh_private_key"}
      [] OTHER -> {}

SameValue(a, b) == a.t = b.t /\ (a.t \in {"undefined", "null"} \/ a.v = b.v)

HasMember(x, f) == \E k \in 1..Len(x.v) : x.v[k][1] = <<f>>
MemberValue(x, f) == x.v[CHOOSE k \in 1..Len(x.v) : x.v[k][1] = <<f>>][2]
TextMember(x, f) == HasMember(x, f) /\ MemberValue(x, f).t = "string"

\* the decoded value matches the kind's row of the shape table
WellFormed(x, type) ==
    /\ x.t = "object"
    /\ \A f \in RequiredFields(type) : TextMember(x, f)
    /\ type = "key_value" => \A k \in 1..Len(x.v) : x.v[k][2].t = "string"

Called == last.op \in {"handler", "optional"}
Present == ~Falsy(last.rawJson)
Decoded == parseJson(last.name, last.rawJson)
Targets(entries) == {entries[k][2] : k \in 1..Len(entries)}
Untouched(x) == SameValue(env[x], last.envBefore[x])

\* the invocations C1 is about: a payload present, decoded, and well-formed
\* for the handler's kind
WellFormedCall ==
    Called /\ Present /\ Decoded.ok /\ WellFormed(Decoded.v, hdl.type)

\* C1 as stated: an invocation with a well-formed payload raises nothing, every
\* variable of the effective mapping holds the payload's value of its field,
\* and every variable that is no target of the mapping is unchanged.
C1_Original ==
    WellFormedCall =>
        /\ last.raised = NoError
        /\ \A k \in 1..Len(last.entries) :
               /\ HasMember(Decoded.v, last.entries[k][1])
               /\ SameValue(env[last.entries[k][2]],
                            MemberValue(Decoded.v, last.entries[k][1]))
        /\ \A x \in EnvKeys \ Targets(last.entries) : Untouched(x)

\* C1 as amended: when the decoded payload is well-formed for the kind and
\* holds a text value for every field of the effective mapping, the invocation
\* raises nothing, every target variable holds the decoded value of the last
\* field mapped to it in mapping order, and every other variable is unchanged.
C1_WellFormedPayloadIsProjected ==
    WellFormedCall =>
        LET v == Decoded.v
        IN  (\A k \in 1..Len(last.entries) : TextMember(v, last.entries[k][1]))
            =>  /\ last.raised = NoError
                /\ \A k \in 1..Len(last.entries) :
                       (\A j \in (k + 1)..Len(last.entries) :
                            last.entries[j][2] # last.entries[k][2])
                       => SameValue(env[last.entries[k][2]],
                                    MemberValue(v, last.entries[k][1]))
                /\ \A x \in EnvKeys \ Targets(last.entries) : Untouched(x)

\* a database handler with an override has projected a well-formed payload
\* over a Variable Store that held other values
C1_Witness ==
    /\ WellFormedCall
    /\ \A k \in 1..Len(last.entries) : TextMember(Decoded.v, last.entries[k][1])
    /\ hdl.type = "database_credentials"
    /\ given.t = "object"
    /\ last.envBefore["DB_HOST"].t = "string"
    /\ ~SameValue(env["DB_PASSWORD"], last.envBefore["DB_PASSWORD"])

\* C2: when the decoded payload fails the kind's shape check, the invocation
\* raises InvalidSecretShape and the Variable Store is what it was before.
C2_ShapeFailureWritesNothing ==
    (Called /\ Present /\ Decoded.ok /\ ~verify(Decoded.v, hdl.type))
    =>  /\ last.raised.kind = "InvalidSecretShape"
        /\ last.writes = <<>>
        /\ \A x \in EnvKeys : Untouched(x)

\* a database_credentials handler was given a payload without dbname
C2_Witness ==
    /\ Called /\ Present /\ Decoded.ok
    /\ hdl.type = "database_credentials"
    /\ Decoded.v.t = "object"
    /\ ~HasMember(Decoded.v, "dbname")
    /\ HasMember(Decoded.v, "host")
    /\ last.raised.kind = "InvalidSecretShape"

\* the decoded-secret cache holds an entry under name
Cached(name) == name \in DOMAIN secrets /\ secrets[name].t # "undefined"

\* C3 as stated: after handler invocations, the presence check of a name is
\* true if and only if the decoded-secret cache holds an entry under that name.
C3_Original ==
    Called => \A name \in EnvKeys : exists(env, name) <=> Cached(name)

\* C3 as amended: the presence check of a name is true if and only if the
\* Variable Store holds a variable of that name: one present when the module
\* was loaded or written since by a handler invocation.  The decoded-secret
\* cache plays no part in it.
C3_ExistsReadsVariableStore ==
    \A name \in EnvKeys : exists(env, name) <=> name \in assigned

\* a secret was decoded and projected: its name is cached and not present,
\* and a variable it wrote is present and not cached
C3_Witness ==
    /\ Called
    /\ last.writes # <<>>
    /\ Cached(last.name) /\ ~exists(env, last.name)
    /\ \E x \in Targets(last.entries) :
           exists(env, x) /\ ~exists(last.envBefore, x) /\ ~Cached(x)

\* the default variable of each database_credentials field, in the order the
\* fields are projected
DbFieldOrder == <<"engine", "host", "port", "username", "password", "dbname">>
DbDefaultVariable(f) ==
    CASE f = "engine" -> "DB_CONNECTION"
      [] f = "host" -> "DB_HOST"
      [] f = "port" -> "DB_PORT"
      [] f = "username" -> "DB_USER"
      [] f = "password" -> "DB_PASSWORD"
      [] f = "dbname" -> "DB_DATABASE"

Overridden(f) == given.t = "object" /\ \E k \in 1..Len(given.v) : given.v[k][1] = f
OverrideVariable(f) == given.v[CHOOSE k \in 1..Len(given.v) : given.v[k][1] = f][2]
DbVariable(f) == IF Overridden(f) THEN OverrideVariable(f) ELSE DbDefaultVariable(f)

\* a database_credentials handler built with an override naming fields of the
\* shape has been invoked with a well-formed payload
DbOverrideCall ==
    /\ WellFormedCall
    /\ hdl.type = "database_credentials"
    /\ given.t = "object" /\ given.v # <<>>
    /\ \A k \in 1..Len(given.v) : given.v[k][1] \in RequiredFields("database_credentials")

\* C4: such an invocation raises nothing and makes exactly one write per field,
\* in field order: an overridden field's value goes to the override's variable
\* and every other field's value to its default variable.  The default variable
\* of an overridden field, when no entry targets it, is left unchanged, and a
\* variable targeted by one entry holds that field's value afterwards.
C4_OverrideReplacesDefault ==
    DbOverrideCall =>
        /\ last.raised = NoError
        /\ Len(last.writes) = Len(DbFieldOrder)
        /\ \A k \in 1..Len(DbFieldOrder) :
               LET f == DbFieldOrder[k]
               IN  /\ last.writes[k][1] = f
                   /\ last.writes[k][2] = DbVariable(f)
                   /\ SameValue(last.writes[k][3], MemberValue(Decoded.v, f))
                   /\ (\A j \in 1..Len(DbFieldOrder) :
                           j # k => DbVariable(DbFieldOrder[j]) # DbVariable(f))
                      => SameValue(env[DbVariable(f)], MemberValue(Decoded.v, f))
                   /\ (Overridden(f)
                       /\ \A j \in 1..Len(DbFieldOrder) :
                              DbVariable(DbFieldOrder[j]) # DbDefaultVariable(f))
                      => Untouched(DbDefaultVariable(f))

\* override {host: CUSTOM_HOST, ...}: CUSTOM_HOST was written and DB_HOST,
\* which held a value, still holds it
C4_Witness ==
    /\ DbOverrideCall
    /\ Overridden("host") /\ OverrideVariable("host") = "CUSTOM_HOST"
    /\ SameValue(env["CUSTOM_HOST"], MemberValue(Decoded.v, "host"))
    /\ last.envBefore["DB_HOST"].t = "string"
    /\ SameValue(env["DB_HOST"], last.envBefore["DB_HOST"])
    /\ SameValue(env["DB_PORT"], MemberValue(Decoded.v, "port"))

\* a handler built with no mapping has been invoked with a well-formed payload
NoMappingCall == WellFormedCall /\ given.t = "undefined"

WrittenFields == {last.writes[k][1] : k \in 1..Len(last.writes)}
WrittenVariables == {last.writes[k][2] : k \in 1..Len(last.writes)}

OneVariablePerRequiredField ==
    /\ WrittenFields = RequiredFields(hdl.type)
    /\ Cardinality(WrittenVariables) = Cardinality(RequiredFields(hdl.type))

\* C5 as stated: key_value is the only kind whose default mapping is empty; a
\* handler built with no mapping writes one variable for every required field
\* for basic_credentials, database_credentials and ssh_key, and none for
\* key_value.
C5_Original ==
    /\ (hdl.type # "none" /\ given.t = "undefined")
       => (built = <<>> <=> hdl.type = "key_value")
    /\ NoMappingCall =>
           IF hdl.type = "key_value" THEN last.writes = <<>>
           ELSE OneVariablePerRequiredField

\* C5 as amended: key_value and ssh_key are the kinds whose default mapping
\* is empty; a handler built with no mapping writes one variable for every
\* required field for basic_credentials and database_credentials, and none
\* for key_value and ssh_key.
C5_EmptyDefaultsOfKvAndSsh ==
    /\ (hdl.type # "none" /\ given.t = "undefined")
       => (built = <<>> <=> hdl.type \in {"key_value", "ssh_key"})
    /\ NoMappingCall =>
           IF hdl.type \in {"key_value", "ssh_key"} THEN last.writes = <<>>
           ELSE OneVariablePerRequiredField

\* an ssh_key handler built with no mapping got a well-formed payload and
\* wrote nothing
C5_Witness ==
    /\ NoMappingCall
    /\ hdl.type = "ssh_key"
    /\ TextMember(Decoded.v, "ssh_private_key")
    /\ last.raised = NoError
    /\ last.writes = <<>>

\* C6: the effective mapping of a handler pair is fixed when the pair is
\* built: every invocation projects the mapping the pair was built with,
\* whatever the caller has done to its mapping object since.
C6_MappingFixedAtConstruction ==
    Called => last.entries = built

\* C7: the optional handler invoked with an absent payload raises nothing and
\* leaves the Variable Store unchanged.
C7_OptionalAbsentIsNoOp ==
    (last.op = "optional" /\ Falsy(last.rawJson))
    =>  /\ last.raised = NoError
        /\ last.writes = <<>>
        /\ \A x \in EnvKeys : Untouched(x)

\* the optional handler of a pair with a non-empty mapping was invoked with
\* undefined over a Variable Store that held values
C7_Witness ==
    /\ last.op = "optional"
    /\ last.rawJson.t = "undefined"
    /\ last.entries # <<>>
    /\ last.envBefore["DB_HOST"].t = "string"

\* C8 as stated: for every payload the decoder accepts, re-serializing the
\* decoded value and decoding that text again succeeds and yields the same
\* value, whatever the type of the value.
C8_Original ==
    rt.stage = "redecoded" => rt.accepted /\ SameValue(rt.second, rt.first)

\* C8 as amended: for every payload the decoder accepts whose decoded value is
\* not a text at the top level (an object, an array, a number, a boolean or
\* null), re-serializing the decoded value and decoding that text again
\* succeeds and yields the same value.  A top-level text does not round-trip:
\* its serialization is wrapped in quotes, which the decoder strips.
C8_RoundTripExceptTopLevelText ==
    rt.stage = "redecoded" =>
        IF rt.first.t = "string"
        THEN ~(rt.accepted /\ SameValue(rt.second, rt.first))
        ELSE rt.accepted /\ SameValue(rt.second, rt.first)

\* a quoted payload decoded to an object holding a text, and the second
\* decode gave the same object
C8_Witness ==
    /\ rt.stage = "redecoded"
    /\ StartsWith(rt.raw.v, DQ)
    /\ rt.first.t = "object"
    /\ rt.first.v # <<>>
    /\ rt.first.v[1][2].t = "string"
    /\ rt.accepted
    /\ SameValue(rt.second, rt.first)

Carries(message, part) == \E i \in 1..Len(message) : message[i] = part

\* C9 as stated: every failure a handler invocation raises carries both the
\* secret's name and the secret kind in its message.
C9_Original ==
    (Called /\ last.raised # NoError)
    => Carries(last.raised.message, last.name) /\ Carries(last.raised.message, hdl.type)

\* C9 as amended: a failure raised by the decoder (MissingPayload, InvalidJson)
\* carries the secret's name in its message, and a failure raised by the
\* mapper (InvalidSecretShape, MissingSecretField, NullSecretField) carries
\* the secret kind; MissingSecretField and NullSecretField also carry the
\* field and the variable name.
C9_MessageCarriesNameOrKind ==
    (Called /\ last.raised # NoError)
    => CASE last.raised.kind \in {"MissingPayload", "InvalidJson"} ->
                Carries(last.raised.message, last.name)
         [] last.raised.kind = "InvalidSecretShape" ->
                Carries(last.raised.message, hdl.type)
         [] last.raised.kind \in {"MissingSecretField", "NullSecretField"} ->
                /\ Carries(last.raised.message, hdl.type)
                /\ Len(last.writes) < Len(last.entries)
                /\ Carries(last.raised.message, last.entries[Len(last.writes) + 1][1])
                /\ Carries(last.raised.message, last.entries[Len(last.writes) + 1][2])
         [] OTHER -> FALSE

\* a shape failure was raised for a secret: its message names the kind and
\* not the secret
C9_Witness ==
    /\ Called
    /\ last.raised.kind = "InvalidSecretShape"
    /\ Carries(last.raised.message, hdl.type)
    /\ ~Carries(last.raised.message, last.name)

\* C10: whenever the decoded value is not an object (null, a text, a number,
\* a boolean or an array) the shape validator returns false, for every kind,
\* and the invocation raises InvalidSecretShape.
C10_NonObjectIsRejected ==
    (Called /\ Present /\ Decoded.ok
     /\ Decoded.v.t \in {"null", "string", "number", "boolean", "array"})
    =>  /\ ~verify(Decoded.v, hdl.type)
        /\ last.raised.kind = "InvalidSecretShape"

\* the invocations C11 and C12 are about: a payload present and decoded that
\* has passed the shape check of the handler's kind
Validated == Called /\ Present /\ Decoded.ok /\ verify(Decoded.v, hdl.type)

\* the decoded payload v lacks the field of entry k of the effective mapping
Lacking(v, k) == ~HasOwn(v, last.entries[k][1])
\* the decoded payload v holds null or undefined under the field of entry k
Nullish(v, k) ==
    /\ HasOwn(v, last.entries[k][1])
    /\ Get(v, last.entries[k][1]).t \in {"undefined", "null"}
Unusable(v, k) == Lacking(v, k) \/ Nullish(v, k)

\* entry k is the first entry of the effective mapping that cannot be projected
\* from the decoded payload v
FirstUnusable(v, k) ==
    /\ k \in 1..Len(last.entries)
    /\ Unusable(v, k)
    /\ \A j \in 1..(k - 1) : ~Unusable(v, j)

FailureOf(v, k) == IF Lacking(v, k) THEN "MissingSecretField" ELSE "NullSecretField"

\* C11 as stated: when a validated payload lacks the field of the k-th entry
\* of the effective mapping, or holds null or undefined under it, the
\* invocation raises that failure, the variables of entries 1..k-1 hold the
\* payload's values of their fields, and the variables of entries k and later
\* are unchanged.
C11_Original ==
    Validated =>
        LET v == Decoded.v
        IN  \A k \in 1..Len(last.entries) :
                FirstUnusable(v, k) =>
                    /\ last.raised.kind = FailureOf(v, k)
                    /\ \A j \in 1..(k - 1) :
                           SameValue(env[last.entries[j][2]],
                                     Get(v, last.entries[j][1]))
                    /\ \A j \in k..Len(last.entries) : Untouched(last.entries[j][2])

\* C11 as amended: in that case the invocation raises that failure after
\* exactly k-1 writes, every variable targeted by entries 1..k-1 holds the text
\* of the payload's value for the last of those entries mapped to it, and every
\* other variable, those of entries k and later included, is unchanged.
C11_FailFastKeepsEarlierWrites ==
    Validated =>
        LET v == Decoded.v
        IN  \A k \in 1..Len(last.entries) :
                FirstUnusable(v, k) =>
                    /\ last.raised.kind = FailureOf(v, k)
                    /\ Len(last.writes) = k - 1
                    /\ \A j \in 1..(k - 1) :
                           (\A i \in (j + 1)..(k - 1) :
                                last.entries[i][2] # last.entries[j][2])
                           => SameValue(env[last.entries[j][2]],
                                        Str(StringOf(Get(v, last.entries[j][1]))))
                    /\ \A x \in EnvKeys \ {last.entries[j][2] : j \in 1..(k - 1)} :
                           Untouched(x)

\* a validated payload lacked the field of an entry after the first: the
\* failure was raised, the first entry's variable has changed to the payload's
\* value and the failing entry's variable is what it was
C11_Witness ==
    /\ Validated
    /\ \E k \in 2..Len(last.entries) :
           /\ FirstUnusable(Decoded.v, k)
           /\ last.raised.kind = "MissingSecretField"
           /\ ~Untouched(last.entries[1][2])
           /\ SameValue(env[last.entries[1][2]],
                        Get(Decoded.v, last.entries[1][1]))
           /\ Untouched(last.entries[k][2])

\* the kinds whose shape table names their fields
FixedKinds == {"basic_credentials", "database_credentials", "ssh_key"}

\* the effective mapping of the last invocation names only fields of the
\* shape table's row of the handler's kind
ShapeOnlyMapping ==
    \A k \in 1..Len(last.entries) : last.entries[k][1] \in RequiredFields(hdl.type)

\* the last invocation wrote for some entries of the mapping and not for all
PartialWrite == last.writes # <<>> /\ Len(last.writes) < Len(last.entries)

\* C12: an invocation of a basic_credentials, database_credentials or ssh_key
\* handler whose effective mapping names only fields of the kind's shape raises
\* neither MissingSecretField nor NullSecretField; when the payload passes the
\* shape check it raises nothing and writes once for every entry, in order,
\* and otherwise it writes nothing and leaves every variable as it was.  An
\* invocation that wrote for some entries and not all is one of a key_value
\* handler or of a mapping naming a field outside the shape.
C12_ShapedKindsAreAtomic ==
    Called =>
        /\ (hdl.type \in FixedKinds /\ ShapeOnlyMapping) =>
               /\ last.raised.kind \notin {"MissingSecretField", "NullSecretField"}
               /\ IF Validated
                  THEN /\ last.raised = NoError
                       /\ Len(last.writes) = Len(last.entries)
                       /\ \A k \in 1..Len(last.entries) :
                              /\ last.writes[k][1] = last.entries[k][1]
                              /\ last.writes[k][2] = last.entries[k][2]
                              /\ exists(env, last.entries[k][2])
                  ELSE /\ last.writes = <<>>
                       /\ \A x \in EnvKeys : Untouched(x)
        /\ PartialWrite => (hdl.type = "key_value" \/ ~ShapeOnlyMapping)

\* a database_credentials handler built with an override naming fields of the
\* shape has passed the shape check and written for all six entries, over a
\* Variable Store in which some of their variables were absent
C12_Witness ==
    /\ Validated
    /\ hdl.type = "database_credentials"
    /\ given.t = "object"
    /\ ShapeOnlyMapping
    /\ Len(last.entries) = 6
    /\ Len(last.writes) = 6
    /\ \E x \in Targets(last.entries) : ~exists(last.envBefore, x)

====
